---- MODULE Spec2Model ----
(***************************************************************************)
(* A model of the map poster generator: create_map_poster.py (the script   *)
(* and its helpers), api/services/poster_service.py and the generate       *)
(* handler of api/main.py.                                                 *)
(*                                                                         *)
(* Conventions.                                                            *)
(*  - A Python string that the code inspects character by character or     *)
(*    token by token is a sequence of one-character (or one-token) strings.*)
(*  - Line widths are kept in tenths (1.2 is 12) so that they are integers.*)
(*  - Python's None is a record field present = FALSE.                     *)
(***************************************************************************)
EXTENDS Integers, Sequences, FiniteSets, TLC

VARIABLES
    pc,            \* position of the running code
    THEME,         \* module-level THEME (create_map_poster.py:204, 704)
    G,             \* the road graph: [present, edges]
    edge_colors,   \* result of get_edge_colors_by_type
    edge_widths,   \* result of get_edge_widths_by_type
    layers_arg,    \* args.layers: [present, tokens], the string split at ","
    layers,        \* result of parse_layers_arg
    point,         \* the (lat, lon) pair given to create_poster, in 1/10000 degree
    coords,        \* the coordinate string drawn on the poster
    paper_size,    \* create_poster's paper_size
    use_exact_bounds,
    xlim, ylim,    \* the locals read from ax.get_xlim(), ax.get_ylim()
    ax_xlim, ax_ylim,  \* the view limits of the axes
    args,          \* the parsed command line (argparse namespace)
    theme_files,   \* the theme ids that have a .json file in THEMES_DIR
    bounds,        \* the bounds dictionary of __main__: [present]
    output_file,   \* the path generate_output_filename returned
    exit_code,     \* the script's exit status; Running until it ends
    stdout,        \* what the script has printed, as message tags
    stderr,        \* what the script has written to standard error
    exc,           \* the message of the exception being raised, "" when none
    water, parks, subway,  \* the feature collections: [present, empty]
    fetch_calls,   \* the requests made to the geodata provider, in order
    fig,           \* whether plt.subplots has created the canvas
    plotted,       \* the artists drawn on the axes, in drawing order
    effects,       \* what apply_post_processing did to the image, in order
    saved,         \* the files written by image.save, in order
    now,           \* the wall clock, in ticks of half a second
    posters_dir,   \* os.listdir(POSTERS_DIR): the names of the files in it
    writes,        \* the image.save calls of all script runs, in order
    call_pc,       \* per call: its position in generate or run_script
    request,       \* per call: the arguments it was made with
    cmd,           \* per call: the command line run_script built
    old_posters,   \* per call: run_script's old_posters
    script_file,   \* per call: the script's output_file
    returncode,    \* per call: process.returncode
    response,      \* per call: what it returned or raised
    height,        \* add_blur_fade_top: the height of the image, in rows
    fade_height_ratio,  \* its fade_height_ratio, in hundredths
    fade_height,   \* its fade_height
    num_steps,     \* its num_steps
    step_height,   \* its step_height
    band_i,        \* its loop variable i
    bands,         \* the strips it has blended and pasted, in order
    blur_exc       \* the exception it raised, "" when none

classVars == <<THEME, G, edge_colors, edge_widths>>
layerVars == <<layers_arg, layers>>
coordVars == <<point, coords>>
cropVars == <<paper_size, use_exact_bounds, xlim, ylim, ax_xlim, ax_ylim>>
mainVars == <<args, theme_files, bounds, output_file, exit_code, stdout, stderr, exc>>
fetchVars == <<water, parks, subway, fetch_calls>>
plotVars == <<fig, plotted>>
postVars == <<effects, saved>>
runVars == <<mainVars, fetchVars, plotVars, postVars>>
serviceVars == <<now, posters_dir, writes, call_pc, request, cmd, old_posters,
                 script_file, returncode, response>>

blurVars == <<height, fade_height_ratio, fade_height, num_steps, step_height,
              band_i, bands, blur_exc>>

vars == <<pc, classVars, layerVars, coordVars, cropVars, runVars, serviceVars,
          blurVars>>

----------------------------------------------------------------------------
(* Bounds of the model. *)

MaxEdges == 2
MaxTagList == 2
MaxTokens == 4
MaxCoord == 3
MaxSpan == 21
NumCalls == 2
MaxClock == 2
MaxHeight == 120

----------------------------------------------------------------------------
(* The values the variables hold before the code has assigned them. *)

\* THEME = None, before load_theme has run.
NoTheme == [none |-> TRUE]
\* G = None
NoGraph == [present |-> FALSE, edges |-> <<>>]
\* args.layers is None: --layers was not given.
NoLayersArg == [present |-> FALSE, tokens |-> <<>>]
NoPoint == <<0, 0>>

ClassIdle ==
    /\ THEME = NoTheme
    /\ G = NoGraph
    /\ edge_colors = <<>>
    /\ edge_widths = <<>>

LayerIdle ==
    /\ layers_arg = NoLayersArg
    /\ layers = <<>>

CoordIdle ==
    /\ point = NoPoint
    /\ coords = <<>>

\* water = None, parks = None, subway = None
NoFeatures == [present |-> FALSE, empty |-> TRUE]
\* The exit status of a script that has not ended.
Running == -1

\* The defaults of the argparse options, with a city and a country given.
DefaultArgs ==
    [no_args |-> FALSE, list_themes |-> FALSE, city_country |-> TRUE,
     theme |-> "feature_based", lat_lng |-> "none",
     bounds |-> [present |-> FALSE, parts |-> <<>>], grain |-> FALSE]

AllThemeIds == {"feature_based", "noir", "ocean", "legacy"}

RunIdle ==
    /\ args = DefaultArgs
    /\ theme_files = AllThemeIds
    /\ bounds = [present |-> FALSE]
    /\ output_file = ""
    /\ exit_code = Running
    /\ stdout = <<>>
    /\ stderr = <<>>
    /\ exc = ""
    /\ water = NoFeatures
    /\ parks = NoFeatures
    /\ subway = NoFeatures
    /\ fetch_calls = <<>>
    /\ fig = FALSE
    /\ plotted = <<>>
    /\ effects = <<>>
    /\ saved = <<>>

\* The calls made to the service, each of generate or of run_script.
Calls == 1..NumCalls

\* No call is being made.
NoRequest ==
    [via |-> "none", city |-> "", theme |-> "", layers |-> <<>>,
     lat_lng |-> FALSE, grain |-> FALSE]
\* A call that has neither returned nor raised.
NoResponse == [outcome |-> "none", filename |-> <<>>, detail |-> "", http |-> 0]

ServiceIdle ==
    /\ now = 0
    /\ posters_dir = {}
    /\ writes = <<>>
    /\ call_pc = [c \in Calls |-> "done"]
    /\ request = [c \in Calls |-> NoRequest]
    /\ cmd = [c \in Calls |-> <<>>]
    /\ old_posters = [c \in Calls |-> {}]
    /\ script_file = [c \in Calls |-> <<>>]
    /\ returncode = [c \in Calls |-> Running]
    /\ response = [c \in Calls |-> NoResponse]

\* add_blur_fade_top has not been called.
BlurIdle ==
    /\ height = 0
    /\ fade_height_ratio = 0
    /\ fade_height = 0
    /\ num_steps = 0
    /\ step_height = 0
    /\ band_i = 0
    /\ bands = <<>>
    /\ blur_exc = ""

\* A new axes' view limits are (0, 1) on both axes.
UnitLim == << <<0, 1>>, <<1, 1>> >>

CropIdle ==
    /\ paper_size = "3:4"
    /\ use_exact_bounds = FALSE
    /\ xlim = UnitLim
    /\ ylim = UnitLim
    /\ ax_xlim = UnitLim
    /\ ax_ylim = UnitLim

----------------------------------------------------------------------------
(* Themes. *)


RequiredKeys ==
    {"bg", "text", "gradient_color", "water", "parks", "road_motorway",
     "road_primary", "road_secondary", "road_tertiary", "road_residential",
     "road_default", "subway"}

\* The fallback dictionary without the subway key.
FallbackThemeWithoutSubway ==
    [name |-> "Feature-Based Shading",
     bg |-> "#FFFFFF",
     text |-> "#000000",
     gradient_color |-> "#FFFFFF",
     water |-> "#C0C0C0",
     parks |-> "#F0F0F0",
     road_motorway |-> "#0A0A0A",
     road_primary |-> "#1A1A1A",
     road_secondary |-> "#2A2A2A",
     road_tertiary |-> "#3A3A3A",
     road_residential |-> "#4A4A4A",
     road_default |-> "#3A3A3A"]

\* The dictionary load_theme returns when the theme file does not exist.
FallbackTheme ==
    [name |-> "Feature-Based Shading",
     bg |-> "#FFFFFF",
     text |-> "#000000",
     gradient_color |-> "#FFFFFF",
     water |-> "#C0C0C0",
     parks |-> "#F0F0F0",
     road_motorway |-> "#0A0A0A",
     road_primary |-> "#1A1A1A",
     road_secondary |-> "#2A2A2A",
     road_tertiary |-> "#3A3A3A",
     road_residential |-> "#4A4A4A",
     road_default |-> "#3A3A3A",
     subway |-> "#FF5722"]

\* The contents json.load may return for the theme files of the themes
\* directory: a complete theme whose colours all differ, a complete theme
\* with a description, and a theme file without the optional subway key.
ThemeFileContents ==
    [noir |->
        [name |-> "Noir", bg |-> "#000000", text |-> "#FFFFFF",
         gradient_color |-> "#000001", water |-> "#0A0A0B", parks |-> "#111112",
         road_motorway |-> "#FFFFF1", road_primary |-> "#E0E0E2",
         road_secondary |-> "#B0B0B3", road_tertiary |-> "#808084",
         road_residential |-> "#505055", road_default |-> "#404046",
         subway |-> "#FF0000"],
     ocean |->
        [name |-> "Ocean", description |-> "Blues and teals",
         bg |-> "#F0F8FA", text |-> "#1A5F7A",
         gradient_color |-> "#F0F8FA", water |-> "#B8D8E8", parks |-> "#D8EAE0",
         road_motorway |-> "#1A5F7A", road_primary |-> "#2A7A9A",
         road_secondary |-> "#4A9AB8", road_tertiary |-> "#70B0C8",
         road_residential |-> "#A0C8D8", road_default |-> "#4A9AB8",
         subway |-> "#E07A5F"],
     feature_based |->
        [name |-> "Feature-Based Shading",
         description |-> "Road hierarchy shown by shade and weight",
         bg |-> "#FFFFFF", text |-> "#000000",
         gradient_color |-> "#FFFFFF", water |-> "#C0C0C0", parks |-> "#F0F0F0",
         road_motorway |-> "#0A0A0A", road_primary |-> "#1A1A1A",
         road_secondary |-> "#2A2A2A", road_tertiary |-> "#3A3A3A",
         road_residential |-> "#4A4A4A", road_default |-> "#3A3A3A",
         subway |-> "#FF5722"],
     legacy |->
        [bg |-> "#FFFFFF", text |-> "#000000",
         gradient_color |-> "#FFFFFF", water |-> "#C0C0C0", parks |-> "#F0F0F0",
         road_motorway |-> "#0A0A0A", road_primary |-> "#1A1A1A",
         road_secondary |-> "#2A2A2A", road_tertiary |-> "#3A3A3A",
         road_residential |-> "#4A4A4A", road_default |-> "#3A3A3A"]]

\* get_available_themes: the names of the .json files of the themes directory.
get_available_themes(files) == files

\* load_theme: the fallback when the file does not exist, else its JSON.
load_theme(theme_name, files) ==
    IF theme_name \notin files
    THEN FallbackTheme
    ELSE ThemeFileContents[theme_name]

\* The theme names load_theme is called with: the stored ones and two others.
ThemeNames == AllThemeIds \cup {"nosuch", "Noir"}

ThemeInit ==
    /\ pc = "load_theme"
    /\ theme_files \in SUBSET AllThemeIds
    /\ \E t \in ThemeNames : args = [DefaultArgs EXCEPT !.theme = t]
    /\ THEME = NoTheme
    /\ G = NoGraph
    /\ edge_colors = <<>>
    /\ edge_widths = <<>>
    /\ LayerIdle
    /\ CoordIdle
    /\ CropIdle
    /\ bounds = [present |-> FALSE]
    /\ output_file = ""
    /\ exit_code = Running
    /\ stdout = <<>>
    /\ stderr = <<>>
    /\ exc = ""
    /\ water = NoFeatures
    /\ parks = NoFeatures
    /\ subway = NoFeatures
    /\ fetch_calls = <<>>
    /\ fig = FALSE
    /\ plotted = <<>>
    /\ effects = <<>>
    /\ saved = <<>>
    /\ ServiceIdle
    /\ BlurIdle

\* THEME = load_theme(args.theme)
LoadTheme ==
    /\ pc = "load_theme"
    /\ THEME' = load_theme(args.theme, theme_files)
    /\ stdout' = Append(stdout, IF args.theme \in theme_files
                                 THEN "loaded_theme" ELSE "theme_file_not_found")
    /\ pc' = "parse_layers"
    /\ UNCHANGED <<serviceVars, blurVars, G, edge_colors, edge_widths, layerVars, coordVars, cropVars,
                   args, theme_files, bounds, output_file, exit_code, stderr, exc,
                   fetchVars, plotVars, postVars>>

SpecTheme == ThemeInit /\ [][LoadTheme]_vars

----------------------------------------------------------------------------
(* Layer selection. *)

AVAILABLE_LAYERS == <<"roads", "water", "parks", "subway">>
DEFAULT_LAYERS == <<"roads", "water", "parks">>

Range(f) == {f[i] : i \in DOMAIN f}

\* The pieces that layers_arg.split(",") yields in the model: the four layer
\* names, an unknown name, the empty piece, and a name with a blank and
\* capitals. The empty string splits into the single piece "".
RawTokens == {"roads", "water", "parks", "subway", "bogus", "", " Water"}

\* layer.strip().lower()
StripLower(tok) ==
    CASE tok = " Water" -> "water"
      [] OTHER -> tok

LayerArgs ==
    {NoLayersArg}
    \cup {[present |-> TRUE, tokens |-> t] :
             t \in UNION {[1..k -> RawTokens] : k \in 1..MaxTokens}}

\* "not layers_arg": None or the empty string.
Falsy(arg) == ~arg.present \/ arg.tokens = <<"">>

\* [layer for layer in layers if not (layer in seen or seen.add(layer))]
RECURSIVE Dedup(_, _, _)
Dedup(ls, i, seen) ==
    IF i > Len(ls) THEN <<>>
    ELSE IF ls[i] \in seen THEN Dedup(ls, i + 1, seen)
    ELSE <<ls[i]>> \o Dedup(ls, i + 1, seen \cup {ls[i]})

\* The parser without its de-duplication.
parse_layers_arg_keep_duplicates(arg) ==
    IF Falsy(arg) THEN DEFAULT_LAYERS
    ELSE LET raw_layers == [i \in 1..Len(arg.tokens) |-> StripLower(arg.tokens[i])]
         IN  SelectSeq(raw_layers, LAMBDA l : l \in Range(AVAILABLE_LAYERS))

\* The parser answering a selection of unknown tokens with the defaults.
parse_layers_arg_default_when_unknown(arg) ==
    IF Falsy(arg) THEN DEFAULT_LAYERS
    ELSE LET raw_layers == [i \in 1..Len(arg.tokens) |-> StripLower(arg.tokens[i])]
             ls == SelectSeq(raw_layers, LAMBDA l : l \in Range(AVAILABLE_LAYERS))
         IN  IF ls = <<>> THEN DEFAULT_LAYERS ELSE Dedup(ls, 1, {})

parse_layers_arg(arg) ==
    IF Falsy(arg) THEN DEFAULT_LAYERS
    ELSE LET raw_layers == [i \in 1..Len(arg.tokens) |-> StripLower(arg.tokens[i])]
             ls == SelectSeq(raw_layers, LAMBDA l : l \in Range(AVAILABLE_LAYERS))
         IN  IF ls = <<>> THEN <<>> ELSE Dedup(ls, 1, {})

LayersInit ==
    /\ pc = "parse_layers"
    /\ layers_arg \in LayerArgs
    /\ layers = <<>>
    /\ ClassIdle
    /\ CoordIdle
    /\ CropIdle
    /\ RunIdle
    /\ ServiceIdle
    /\ BlurIdle

ParseLayers ==
    /\ pc = "parse_layers"
    /\ layers' = parse_layers_arg(layers_arg)
    /\ pc' = "parse_bounds"
    /\ UNCHANGED <<serviceVars, blurVars, layers_arg, classVars, coordVars, cropVars, runVars>>

SpecLayers == LayersInit /\ [][ParseLayers]_vars

----------------------------------------------------------------------------
(* Coordinate string. *)

DigitChar == <<"0", "1", "2", "3", "4", "5", "6", "7", "8", "9">>

RECURSIVE Digits(_)
Digits(n) ==
    IF n < 10 THEN <<DigitChar[n + 1]>>
    ELSE Digits(n \div 10) \o <<DigitChar[(n % 10) + 1]>>

Abs(x) == IF x < 0 THEN -x ELSE x

\* f"{x:.4f}" for x given in 1/10000: sign, integer part, point, 4 decimals.
Format4f(x) ==
    LET a == Abs(x)
        frac == a % 10000
    IN  (IF x < 0 THEN <<"-">> ELSE <<>>)
        \o Digits(a \div 10000) \o <<".">>
        \o << DigitChar[(frac \div 1000) + 1], DigitChar[((frac \div 100) % 10) + 1],
              DigitChar[((frac \div 10) % 10) + 1], DigitChar[(frac % 10) + 1] >>

\* str.replace(old, new) for one-character old and new.
Replace(s, old, new) == [i \in 1..Len(s) |-> IF s[i] = old THEN new ELSE s[i]]

\* create_poster's coords string.
FormatCoords(pt) ==
    LET lat == pt[1]
        lon == pt[2]
        c == IF lat >= 0
             THEN Format4f(lat) \o <<"°", " ", "N", " ", "/", " ">>
                  \o Format4f(lon) \o <<"°", " ", "E">>
             ELSE Format4f(Abs(lat)) \o <<"°", " ", "S", " ", "/", " ">>
                  \o Format4f(lon) \o <<"°", " ", "E">>
    IN  IF lon < 0 THEN Replace(c, "E", "W") ELSE c

\* Coordinates in 1/10000 degree: values around zero and the four of
\* New York (40.7128, -74.0060) and Sydney (-33.8688, 151.2093).
CoordValues == (-MaxCoord..MaxCoord) \cup {407128, -740060, -338688, 1512093}

CoordsInit ==
    /\ pc = "format_coords"
    /\ point \in CoordValues \X CoordValues
    /\ coords = <<>>
    /\ ClassIdle
    /\ LayerIdle
    /\ CropIdle
    /\ RunIdle
    /\ ServiceIdle
    /\ BlurIdle

\* An artist on the axes: what it shows, its zorder argument (has_zorder is
\* FALSE when the call passes none) and its colour.
Artist(layer, has_zorder, zorder, color) ==
    [layer |-> layer, has_zorder |-> has_zorder, zorder |-> zorder, color |-> color]

\* Lines 531-559: the city, the country, the coordinate string, the divider
\* and the attribution, all at zorder 11.
DrawCoords ==
    /\ pc = "format_coords"
    /\ coords' = FormatCoords(point)
    /\ plotted' = Append(plotted, Artist("text", TRUE, 11, "text"))
    /\ pc' = "post_process"
    /\ UNCHANGED <<serviceVars, blurVars, point, classVars, layerVars, cropVars, mainVars, fetchVars, fig,
                   postVars>>

SpecCoords == CoordsInit /\ [][DrawCoords]_vars

----------------------------------------------------------------------------
(* Geometry cropper. Coordinates, sizes and ratios are exact rationals       *)
(* <<numerator, denominator>> in lowest terms with a positive denominator.   *)

RECURSIVE GCD(_, _)
GCD(a, b) == IF b = 0 THEN a ELSE GCD(b, a % b)

Rat(n, d) ==
    LET g == GCD(Abs(n), Abs(d))
        sgn == IF d < 0 THEN -1 ELSE 1
    IN  <<(sgn * n) \div g, (sgn * d) \div g>>

RInt(n) == <<n, 1>>
RAdd(a, b) == Rat(a[1] * b[2] + b[1] * a[2], a[2] * b[2])
RSub(a, b) == Rat(a[1] * b[2] - b[1] * a[2], a[2] * b[2])
RMul(a, b) == Rat(a[1] * b[1], a[2] * b[2])
RDiv(a, b) == Rat(a[1] * b[2], a[2] * b[1])
RAbs(a) == <<Abs(a[1]), a[2]>>
RLess(a, b) == a[1] * b[2] < b[1] * a[2]

\* aspect_ratios: paper size -> (width, height); 12 * 1.414 is 16.968.
aspect_ratios ==
    [p \in {"1:1", "2:3", "3:4", "4:5", "DIN", "9:16", "9:19.5"} |->
        CASE p = "1:1" -> <<RInt(12), RInt(12)>>
          [] p = "2:3" -> <<RInt(12), RInt(18)>>
          [] p = "3:4" -> <<RInt(12), RInt(16)>>
          [] p = "4:5" -> <<RInt(12), RInt(15)>>
          [] p = "DIN" -> <<RInt(12), Rat(16968, 1000)>>
          [] p = "9:16" -> <<RInt(9), RInt(16)>>
          [] p = "9:19.5" -> <<RInt(9), Rat(195, 10)>>]

\* aspect_ratios.get(paper_size, aspect_ratios['3:4'])
FigSize(p) == IF p \in DOMAIN aspect_ratios THEN aspect_ratios[p] ELSE aspect_ratios["3:4"]

\* The paper sizes create_poster is called with: the seven keys and one
\* that is no key.
PaperSizes == DOMAIN aspect_ratios \cup {"5:7"}

tolerance == Rat(5, 100)

\* target_ratio = width / height of the figure
TargetRatio(p) == RDiv(FigSize(p)[1], FigSize(p)[2])

\* current_ratio = data_width / data_height
CurrentRatio(xl, yl) == RDiv(RSub(xl[2], xl[1]), RSub(yl[2], yl[1]))

\* ax.set_xlim(data_center_x - new_width / 2, data_center_x + new_width / 2)
\* with new_width = data_height * target_ratio
CropWidth(xl, yl, p) ==
    LET data_height == RSub(yl[2], yl[1])
        data_center_x == RDiv(RAdd(xl[1], xl[2]), RInt(2))
        new_width == RMul(data_height, TargetRatio(p))
    IN  << <<RSub(data_center_x, RDiv(new_width, RInt(2))),
             RAdd(data_center_x, RDiv(new_width, RInt(2)))>>, yl >>

\* ax.set_ylim(data_center_y - new_height / 2, data_center_y + new_height / 2)
\* with new_height = data_width / target_ratio
CropHeight(xl, yl, p) ==
    LET data_width == RSub(xl[2], xl[1])
        data_center_y == RDiv(RAdd(yl[1], yl[2]), RInt(2))
        new_height == RDiv(data_width, TargetRatio(p))
    IN  << xl, <<RSub(data_center_y, RDiv(new_height, RInt(2))),
                 RAdd(data_center_y, RDiv(new_height, RInt(2)))>> >>

\* ratio_diff = abs(current_ratio - target_ratio) / target_ratio
RatioDiff(xl, yl, p) ==
    RDiv(RAbs(RSub(CurrentRatio(xl, yl), TargetRatio(p))), TargetRatio(p))

\* The crop without the tolerance test of the exact-bounds branch.
CropLimitsNoTolerance(exact, xl, yl, p) ==
    IF RLess(TargetRatio(p), CurrentRatio(xl, yl))
    THEN CropWidth(xl, yl, p)
    ELSE CropHeight(xl, yl, p)

\* The crop with the tolerance test in both branches.
CropLimitsTolerant(exact, xl, yl, p) ==
    IF RLess(tolerance, RatioDiff(xl, yl, p))
    THEN (IF RLess(TargetRatio(p), CurrentRatio(xl, yl))
          THEN CropWidth(xl, yl, p)
          ELSE CropHeight(xl, yl, p))
    ELSE <<xl, yl>>

\* Lines 471-506: the view limits <<xlim, ylim>> that the axes have after the
\* crop, from the limits xl, yl read before it.
CropLimits(exact, xl, yl, p) ==
    IF exact
    THEN IF RLess(tolerance, RatioDiff(xl, yl, p))
         THEN (IF RLess(TargetRatio(p), CurrentRatio(xl, yl))
               THEN CropWidth(xl, yl, p)
               ELSE CropHeight(xl, yl, p))
         ELSE <<xl, yl>>
    ELSE IF RLess(TargetRatio(p), CurrentRatio(xl, yl))
         THEN CropWidth(xl, yl, p)
         ELSE CropHeight(xl, yl, p)

\* The extents the drawn data gives the axes: a positive width and height,
\* from two origins.
Origins == {<<0, 0>>, <<-3, 2>>}
Extents ==
    {<< <<RInt(o[1]), RInt(o[1] + dw)>>, <<RInt(o[2]), RInt(o[2] + dh)>> >> :
        o \in Origins, dw \in 1..MaxSpan, dh \in 1..MaxSpan}

CropInit ==
    /\ pc = "crop"
    /\ paper_size \in PaperSizes
    /\ use_exact_bounds \in BOOLEAN
    /\ \E e \in Extents : ax_xlim = e[1] /\ ax_ylim = e[2]
    /\ xlim = UnitLim
    /\ ylim = UnitLim
    /\ ClassIdle
    /\ LayerIdle
    /\ CoordIdle
    /\ RunIdle
    /\ ServiceIdle
    /\ BlurIdle

CropToPaper ==
    /\ pc = "crop"
    /\ xlim' = ax_xlim
    /\ ylim' = ax_ylim
    /\ ax_xlim' = CropLimits(use_exact_bounds, ax_xlim, ax_ylim, paper_size)[1]
    /\ ax_ylim' = CropLimits(use_exact_bounds, ax_xlim, ax_ylim, paper_size)[2]
    /\ pc' = "gradients"
    /\ UNCHANGED <<serviceVars, blurVars, paper_size, use_exact_bounds, classVars, layerVars, coordVars, runVars>>

SpecCrop == CropInit /\ [][CropToPaper]_vars

----------------------------------------------------------------------------
(* Road classifier. *)

\* The highway tags of the if/elif chains, and two tags outside them.
ChainTags ==
    {"motorway", "motorway_link", "trunk", "trunk_link", "primary",
     "primary_link", "secondary", "secondary_link", "tertiary",
     "tertiary_link", "residential", "living_street", "unclassified"}
HighwayTags == ChainTags \cup {"footway", "service"}

\* Tags that occur inside list-valued highway attributes in the model.
ListTags == {"tertiary_link", "residential", "footway"}

SeqsUpTo(S, n) == UNION {[1..k -> S] : k \in 0..n}

\* The attribute dictionary of one edge: no highway key, a scalar tag, or a
\* list of tags.
EdgeData ==
    {[has |-> FALSE, isList |-> FALSE, tags |-> <<>>]}
    \cup {[has |-> TRUE, isList |-> FALSE, tags |-> <<t>>] : t \in HighwayTags}
    \cup {[has |-> TRUE, isList |-> TRUE, tags |-> l] : l \in SeqsUpTo(ListTags, MaxTagList)}

Graphs == SeqsUpTo(EdgeData, MaxEdges)

\* data.get('highway', 'unclassified'), then the first element of a list.
HighwayOf(data) ==
    LET highway == IF data.has THEN data.tags ELSE <<"unclassified">>
    IN  IF data.has /\ data.isList
        THEN (IF Len(highway) > 0 THEN highway[1] ELSE "unclassified")
        ELSE highway[1]

EdgeColor(theme, highway) ==
    IF highway \in {"motorway", "motorway_link"} THEN theme["road_motorway"]
    ELSE IF highway \in {"trunk", "trunk_link", "primary", "primary_link"}
         THEN theme["road_primary"]
    ELSE IF highway \in {"secondary", "secondary_link"} THEN theme["road_secondary"]
    ELSE IF highway \in {"tertiary", "tertiary_link"} THEN theme["road_tertiary"]
    ELSE IF highway \in {"residential", "living_street", "unclassified"}
         THEN theme["road_residential"]
    ELSE theme["road_default"]

\* The width chain with primary_link left out of its second test.
EdgeWidthWithoutPrimaryLink(highway) ==
    IF highway \in {"motorway", "motorway_link"} THEN 12
    ELSE IF highway \in {"trunk", "trunk_link", "primary"} THEN 10
    ELSE IF highway \in {"secondary", "secondary_link"} THEN 8
    ELSE IF highway \in {"tertiary", "tertiary_link"} THEN 6
    ELSE 4

EdgeWidth(highway) ==
    IF highway \in {"motorway", "motorway_link"} THEN 12
    ELSE IF highway \in {"trunk", "trunk_link", "primary", "primary_link"} THEN 10
    ELSE IF highway \in {"secondary", "secondary_link"} THEN 8
    ELSE IF highway \in {"tertiary", "tertiary_link"} THEN 6
    ELSE 4

\* The loop over G.edges(data=True) appends one colour per edge, in order.
get_edge_colors_by_type(g, theme) ==
    [i \in 1..Len(g.edges) |-> EdgeColor(theme, HighwayOf(g.edges[i]))]

\* The width loop passing over the edges that have no highway attribute.
get_edge_widths_by_type_skipping_untagged(g) ==
    LET tagged == SelectSeq(g.edges, LAMBDA data : data.has)
    IN  [i \in 1..Len(tagged) |-> EdgeWidth(HighwayOf(tagged[i]))]

get_edge_widths_by_type(g) ==
    [i \in 1..Len(g.edges) |-> EdgeWidth(HighwayOf(g.edges[i]))]

ClassifyInit ==
    /\ pc = "edge_colors"
    /\ LayerIdle
    /\ CoordIdle
    /\ CropIdle
    /\ THEME \in {FallbackTheme, ThemeFileContents["noir"]}
    /\ G \in {[present |-> TRUE, edges |-> e] : e \in Graphs}
    /\ edge_colors = <<>>
    /\ edge_widths = <<>>
    /\ RunIdle
    /\ ServiceIdle
    /\ BlurIdle

GetEdgeColors ==
    /\ pc = "edge_colors"
    /\ edge_colors' = get_edge_colors_by_type(G, THEME)
    /\ pc' = "edge_widths"
    /\ UNCHANGED <<serviceVars, blurVars, THEME, G, edge_widths, layerVars, coordVars, cropVars, runVars>>

GetEdgeWidths ==
    /\ pc = "edge_widths"
    /\ edge_widths' = get_edge_widths_by_type(G)
    /\ pc' = "plot_graph"
    /\ UNCHANGED <<serviceVars, blurVars, THEME, G, edge_colors, layerVars, coordVars, cropVars, runVars>>

ClassifyNext == GetEdgeColors \/ GetEdgeWidths

SpecClassify == ClassifyInit /\ [][ClassifyNext]_vars

----------------------------------------------------------------------------
(* The script: __main__ up to the call of create_poster. *)

\* The --layers values of the runs: absent, empty, unknown only, every
\* non-empty subset of the four layers, and one with repeats and an unknown.
RunLayerArgs ==
    {NoLayersArg}
    \cup {[present |-> TRUE, tokens |-> t] :
            t \in {<<"">>, <<"bogus">>, <<"subway", "roads", "bogus", "roads">>}}
    \cup {[present |-> TRUE,
           tokens |-> SelectSeq(AVAILABLE_LAYERS, LAMBDA l : l \in S)] :
            S \in (SUBSET Range(AVAILABLE_LAYERS)) \ {{}}}

\* The --bounds values of the runs: absent, four numbers, three numbers,
\* four parts of which one is no number.
BoundsArgs ==
    {[present |-> FALSE, parts |-> <<>>],
     [present |-> TRUE, parts |-> <<"num", "num", "num", "num">>],
     [present |-> TRUE, parts |-> <<"num", "num", "num">>],
     [present |-> TRUE, parts |-> <<"num", "text", "num", "num">>]}

RunArgs ==
    [no_args : {FALSE}, list_themes : {FALSE}, city_country : {TRUE},
     theme : {"noir", "legacy", "nosuch"},
     lat_lng : {"both", "lat", "none"},
     bounds : BoundsArgs, grain : BOOLEAN]

RunPaperSizes == {"3:4", "9:19.5"}

\* --lat/--lng as given (Sydney) and the geocoder's answer (New York).
ArgPoint == <<-338688, 1512093>>
GeocodedPoint == <<407128, -740060>>

MainInit ==
    /\ pc = "main"
    /\ theme_files = AllThemeIds
    /\ \/ /\ args \in {[DefaultArgs EXCEPT !.no_args = TRUE, !.city_country = FALSE],
                       [DefaultArgs EXCEPT !.list_themes = TRUE],
                       [DefaultArgs EXCEPT !.city_country = FALSE]}
          /\ layers_arg = NoLayersArg
          /\ paper_size = "3:4"
       \/ /\ args \in RunArgs
          /\ layers_arg \in RunLayerArgs
          /\ paper_size \in RunPaperSizes
    /\ ClassIdle
    /\ layers = <<>>
    /\ CoordIdle
    /\ use_exact_bounds = FALSE
    /\ xlim = UnitLim
    /\ ylim = UnitLim
    /\ ax_xlim = UnitLim
    /\ ax_ylim = UnitLim
    /\ bounds = [present |-> FALSE]
    /\ output_file = ""
    /\ exit_code = Running
    /\ stdout = <<>>
    /\ stderr = <<>>
    /\ exc = ""
    /\ water = NoFeatures
    /\ parks = NoFeatures
    /\ subway = NoFeatures
    /\ fetch_calls = <<>>
    /\ fig = FALSE
    /\ plotted = <<>>
    /\ effects = <<>>
    /\ saved = <<>>
    /\ ServiceIdle
    /\ BlurIdle

\* Lines 674-690: no arguments, --list-themes, missing city or country.
Main ==
    /\ pc = "main"
    /\ IF args.no_args
       THEN /\ stdout' = Append(stdout, "examples")
            /\ exit_code' = 0
            /\ pc' = "exit"
       ELSE IF args.list_themes
       THEN /\ stdout' = Append(stdout, "themes")
            /\ exit_code' = 0
            /\ pc' = "exit"
       ELSE IF ~args.city_country
       THEN /\ stdout' = stdout \o <<"Error: --city and --country are required.", "examples">>
            /\ exit_code' = 1
            /\ pc' = "exit"
       ELSE /\ pc' = "validate_theme"
            /\ UNCHANGED <<stdout, exit_code>>
    /\ UNCHANGED <<serviceVars, blurVars, classVars, layerVars, coordVars, cropVars, args, theme_files,
                   bounds, output_file, stderr, exc, fetchVars, plotVars, postVars>>

\* The script without the test of lines 692-697.
ValidateThemeNoCheck ==
    /\ pc = "validate_theme"
    /\ stdout' = Append(stdout, "City Map Poster Generator")
    /\ pc' = "load_theme"
    /\ UNCHANGED <<serviceVars, blurVars, classVars, layerVars, coordVars, cropVars, args, theme_files,
                   bounds, output_file, exit_code, stderr, exc, fetchVars, plotVars,
                   postVars>>

\* Lines 692-701: the theme must be among get_available_themes().
ValidateTheme ==
    /\ pc = "validate_theme"
    /\ IF args.theme \notin get_available_themes(theme_files)
       THEN /\ stdout' = stdout \o <<"Error: Theme not found.", "Available themes">>
            /\ exit_code' = 1
            /\ pc' = "exit"
       ELSE /\ stdout' = Append(stdout, "City Map Poster Generator")
            /\ pc' = "load_theme"
            /\ UNCHANGED exit_code
    /\ UNCHANGED <<serviceVars, blurVars, classVars, layerVars, coordVars, cropVars, args, theme_files,
                   bounds, output_file, stderr, exc, fetchVars, plotVars, postVars>>

\* float(x.strip()) succeeds
Numeric(part) == part = "num"

\* The parsing with any number of numeric parts taken for bounds.
ParseBoundsAnyCount ==
    /\ pc = "parse_bounds"
    /\ IF ~args.bounds.present
       THEN UNCHANGED <<bounds, stdout>>
       ELSE IF \E i \in 1..Len(args.bounds.parts) : ~Numeric(args.bounds.parts[i])
       THEN /\ stdout' = Append(stdout, "Invalid bounds values. Expected numeric values.")
            /\ UNCHANGED bounds
       ELSE /\ bounds' = [present |-> TRUE]
            /\ stdout' = Append(stdout, "Using provided bounds")
    /\ pc' = "get_coords"
    /\ UNCHANGED <<serviceVars, blurVars, classVars, layerVars, coordVars, cropVars, args,
                   theme_files, output_file, exit_code, stderr, exc, fetchVars,
                   plotVars, postVars>>

\* Lines 707-723: the bounds dictionary, or None with a warning.
ParseBounds ==
    /\ pc = "parse_bounds"
    /\ IF ~args.bounds.present
       THEN UNCHANGED <<bounds, stdout>>
       ELSE IF \E i \in 1..Len(args.bounds.parts) : ~Numeric(args.bounds.parts[i])
       THEN /\ stdout' = Append(stdout, "Invalid bounds values. Expected numeric values.")
            /\ UNCHANGED bounds
       ELSE IF Len(args.bounds.parts) = 4
       THEN /\ bounds' = [present |-> TRUE]
            /\ stdout' = Append(stdout, "Using provided bounds")
       ELSE /\ stdout' = Append(stdout, "Invalid bounds format. Expected: north,south,east,west")
            /\ UNCHANGED bounds
    /\ pc' = "get_coords"
    /\ UNCHANGED <<serviceVars, blurVars, classVars, layerVars, coordVars, cropVars, args, theme_files,
                   output_file, exit_code, stderr, exc, fetchVars, plotVars, postVars>>

\* Lines 726-731 and get_coordinates: the given latitude and longitude, or
\* the geocoder's answer; no answer raises ValueError, and the geocoder
\* itself may raise.
GetCoords ==
    /\ pc = "get_coords"
    /\ IF args.lat_lng = "both"
       THEN /\ point' = ArgPoint
            /\ stdout' = Append(stdout, "Using provided coordinates")
            /\ pc' = "output_filename"
            /\ UNCHANGED exc
       ELSE \/ /\ point' = GeocodedPoint
               /\ stdout' = stdout \o <<"Looking up coordinates...", "Found", "Coordinates">>
               /\ pc' = "output_filename"
               /\ UNCHANGED exc
            \/ /\ exc' = "Could not find coordinates for city, country"
               /\ stdout' = Append(stdout, "Looking up coordinates...")
               /\ pc' = "except"
               /\ UNCHANGED point
            \/ /\ exc' = "geocoder: service unavailable"
               /\ stdout' = Append(stdout, "Looking up coordinates...")
               /\ pc' = "except"
               /\ UNCHANGED point
    /\ UNCHANGED <<serviceVars, blurVars, classVars, layerVars, coords, cropVars, args, theme_files, bounds,
                   output_file, exit_code, stderr, fetchVars, plotVars, postVars>>

\* Line 733, generate_output_filename: POSTERS_DIR/{city}_{theme}_{timestamp}.png
GenerateOutputFilename ==
    /\ pc = "output_filename"
    /\ output_file' = "posters/city_theme_timestamp.png"
    /\ pc' = "create_poster"
    /\ UNCHANGED <<serviceVars, blurVars, classVars, layerVars, coordVars, cropVars, args, theme_files, bounds,
                   exit_code, stdout, stderr, exc, fetchVars, plotVars, postVars>>

\* Lines 740-743: the handler prints the error and the traceback; the script
\* then runs off its end, which is exit status 0.
HandleException ==
    /\ pc = "except"
    /\ stdout' = stdout \o <<"Error:", exc>>
    /\ stderr' = stderr \o <<"Traceback", exc>>
    /\ exc' = ""
    /\ exit_code' = 0
    /\ pc' = "exit"
    /\ UNCHANGED <<serviceVars, blurVars, classVars, layerVars, coordVars, cropVars, args, theme_files, bounds,
                   output_file, fetchVars, plotVars, postVars>>

----------------------------------------------------------------------------
(* create_poster. *)

\* The road graph the provider returns in the runs: a motorway, a list-valued
\* residential street and a footway.
RunGraph ==
    [present |-> TRUE,
     edges |-> << [has |-> TRUE, isList |-> FALSE, tags |-> <<"motorway">>],
                  [has |-> TRUE, isList |-> TRUE, tags |-> <<"residential", "footway">>],
                  [has |-> TRUE, isList |-> FALSE, tags |-> <<"footway">>] >>]

\* The extents the plotted data gives the axes in the runs.
RunExtents ==
    {<< <<RInt(0), RInt(20)>>, <<RInt(0), RInt(21)>> >>,
     << <<RInt(-3), RInt(18)>>, <<RInt(2), RInt(6)>> >>}

\* A request to the provider: the layer, and whether by bounding box or by
\* centre point and distance.
FetchCall(layer) ==
    [layer |-> layer, by |-> IF use_exact_bounds THEN "bbox" ELSE "point"]

\* Lines 350-383: figure size, layers_set, the four None, use_exact_bounds.
CreatePoster ==
    /\ pc = "create_poster"
    /\ use_exact_bounds' = bounds.present
    /\ G' = NoGraph
    /\ water' = NoFeatures
    /\ parks' = NoFeatures
    /\ subway' = NoFeatures
    /\ stdout' = Append(stdout, "Generating map")
    /\ pc' = "fetch_roads"
    /\ UNCHANGED <<serviceVars, blurVars, THEME, edge_colors, edge_widths, layerVars, coordVars, paper_size,
                   xlim, ylim, ax_xlim, ax_ylim, args, theme_files, bounds, output_file,
                   exit_code, stderr, exc, fetch_calls, plotVars, postVars>>

\* Lines 387-394: the street network; an exception of the provider is not
\* caught here.
FetchRoads ==
    /\ pc = "fetch_roads"
    /\ IF "roads" \in Range(layers)
       THEN /\ fetch_calls' = Append(fetch_calls, FetchCall("roads"))
            /\ \/ /\ G' = RunGraph
                  /\ pc' = "fetch_water"
                  /\ UNCHANGED exc
               \/ /\ exc' = "provider: no street network"
                  /\ pc' = "except"
                  /\ UNCHANGED G
       ELSE /\ pc' = "fetch_water"
            /\ UNCHANGED <<G, exc, fetch_calls>>
    /\ UNCHANGED <<serviceVars, blurVars, THEME, edge_colors, edge_widths, layerVars, coordVars, cropVars,
                   args, theme_files, bounds, output_file, exit_code, stdout, stderr,
                   water, parks, subway, plotVars, postVars>>

\* What a features request gives: features, an empty collection, or an
\* exception, which the bare except turns into None.
FeatureResults ==
    {[present |-> TRUE, empty |-> FALSE], [present |-> TRUE, empty |-> TRUE], NoFeatures}

\* Lines 396-407
FetchWater ==
    /\ pc = "fetch_water"
    /\ IF "water" \in Range(layers)
       THEN /\ fetch_calls' = Append(fetch_calls, FetchCall("water"))
            /\ water' \in FeatureResults
       ELSE UNCHANGED <<water, fetch_calls>>
    /\ pc' = "fetch_parks"
    /\ UNCHANGED <<serviceVars, blurVars, classVars, layerVars, coordVars, cropVars, mainVars, parks, subway,
                   plotVars, postVars>>

\* Lines 409-420
FetchParks ==
    /\ pc = "fetch_parks"
    /\ IF "parks" \in Range(layers)
       THEN /\ fetch_calls' = Append(fetch_calls, FetchCall("parks"))
            /\ parks' \in FeatureResults
       ELSE UNCHANGED <<parks, fetch_calls>>
    /\ pc' = "fetch_subway"
    /\ UNCHANGED <<serviceVars, blurVars, classVars, layerVars, coordVars, cropVars, mainVars, water, subway,
                   plotVars, postVars>>

\* Lines 422-434
FetchSubway ==
    /\ pc = "fetch_subway"
    /\ IF "subway" \in Range(layers)
       THEN /\ fetch_calls' = Append(fetch_calls, FetchCall("subway"))
            /\ subway' \in FeatureResults
       ELSE UNCHANGED <<subway, fetch_calls>>
    /\ pc' = "setup_plot"
    /\ UNCHANGED <<serviceVars, blurVars, classVars, layerVars, coordVars, cropVars, mainVars, water, parks,
                   plotVars, postVars>>

\* Lines 436-440: the figure and the axes.
SetupPlot ==
    /\ pc = "setup_plot"
    /\ fig' = TRUE
    /\ pc' = "plot_features"
    /\ UNCHANGED <<serviceVars, blurVars, classVars, layerVars, coordVars, cropVars, mainVars, fetchVars,
                   plotted, postVars>>

\* The test without "not <layer>.empty".
DrawableIgnoringEmpty(layer, features) ==
    layer \in Range(layers) /\ features.present

\* "<layer>" in layers_set and <layer> is not None and not <layer>.empty
Drawable(layer, features) ==
    layer \in Range(layers) /\ features.present /\ ~features.empty

\* THEME.get('subway', THEME.get('road_primary', '#111111'))
SubwayColor(theme) ==
    IF "subway" \in DOMAIN theme THEN theme["subway"]
    ELSE IF "road_primary" \in DOMAIN theme THEN theme["road_primary"]
    ELSE "#111111"

\* Lines 444-450: water, parks and subway, each when it has features.
PlotFeatures ==
    /\ pc = "plot_features"
    /\ plotted' = plotted
         \o (IF Drawable("water", water)
             THEN <<Artist("water", TRUE, 1, THEME["water"])>> ELSE <<>>)
         \o (IF Drawable("parks", parks)
             THEN <<Artist("parks", TRUE, 2, THEME["parks"])>> ELSE <<>>)
         \o (IF Drawable("subway", subway)
             THEN <<Artist("subway", TRUE, 3, SubwayColor(THEME))>> ELSE <<>>)
    /\ IF Drawable("water", water) \/ Drawable("parks", parks) \/ Drawable("subway", subway)
       THEN \E e \in RunExtents : ax_xlim' = e[1] /\ ax_ylim' = e[2]
       ELSE UNCHANGED <<ax_xlim, ax_ylim>>
    /\ pc' = "plot_roads"
    /\ UNCHANGED <<serviceVars, blurVars, classVars, layerVars, coordVars, paper_size, use_exact_bounds,
                   xlim, ylim, mainVars, fetchVars, fig, postVars>>

\* Line 453: if "roads" in layers_set and G is not None
PlotRoads ==
    /\ pc = "plot_roads"
    /\ IF "roads" \in Range(layers) /\ G.present
       THEN pc' = "edge_colors" /\ stdout' = Append(stdout, "Applying road hierarchy colors...")
       ELSE pc' = "crop" /\ UNCHANGED stdout
    /\ UNCHANGED <<serviceVars, blurVars, classVars, layerVars, coordVars, cropVars, args, theme_files, bounds,
                   output_file, exit_code, stderr, exc, fetchVars, plotVars, postVars>>

\* The call of ox.plot_graph passes no zorder, so the edges get the one the
\* plotting library gives them: osmnx draws edges at zorder 1, and a line
\* collection drawn without one gets matplotlib's default of at most 2.
PlotGraphZorders == {1, 2}

\* Lines 458-467: ox.plot_graph draws the edges with the two sequences.
PlotGraph ==
    /\ pc = "plot_graph"
    /\ \E z \in PlotGraphZorders :
          plotted' = Append(plotted, Artist("roads", FALSE, z, "edge_colors"))
    /\ \E e \in RunExtents : ax_xlim' = e[1] /\ ax_ylim' = e[2]
    /\ pc' = "crop"
    /\ UNCHANGED <<serviceVars, blurVars, classVars, layerVars, coordVars, paper_size, use_exact_bounds,
                   xlim, ylim, mainVars, fetchVars, fig, postVars>>

\* Lines 508-516: the bottom and the top gradient, at zorder 10.
Gradients ==
    /\ pc = "gradients"
    /\ plotted' = plotted \o <<Artist("gradient_bottom", TRUE, 10, THEME["gradient_color"]),
                               Artist("gradient_top", TRUE, 10, THEME["gradient_color"])>>
    /\ pc' = "format_coords"
    /\ UNCHANGED <<serviceVars, blurVars, classVars, layerVars, coordVars, cropVars, mainVars, fetchVars, fig,
                   postVars>>

\* The post-processing with the grain put on before the blur fade.
apply_post_processing_grain_first(paper, grain) ==
    (IF grain THEN <<"grain">> ELSE <<>>)
    \o (IF paper = "9:19.5" THEN <<"blur_fade">> ELSE <<>>)
    \o <<"save">>

\* Lines 130-141: what apply_post_processing does to the image, in order:
\* the blur fade for 9:19.5, the grain when asked for, then image.save.
apply_post_processing(paper, grain) ==
    (IF paper = "9:19.5" THEN <<"blur_fade">> ELSE <<>>)
    \o (IF grain THEN <<"grain">> ELSE <<>>)
    \o <<"save">>

\* Line 563: apply_post_processing(fig, output_file, paper_size, grain, ...)
ApplyPostProcessing ==
    /\ pc = "post_process"
    /\ effects' = apply_post_processing(paper_size, args.grain)
    /\ saved' = Append(saved, output_file)
    /\ stdout' = Append(stdout, "Saving to output_file...")
    /\ pc' = "finish"
    /\ UNCHANGED <<serviceVars, blurVars, classVars, layerVars, coordVars, cropVars, args, theme_files, bounds,
                   output_file, exit_code, stderr, exc, fetchVars, plotVars>>

\* Lines 564-565 and 736-738: the run ends normally.
Finish ==
    /\ pc = "finish"
    /\ fig' = FALSE
    /\ stdout' = stdout \o <<"Done! Poster saved", "Poster generation complete!">>
    /\ exit_code' = 0
    /\ pc' = "exit"
    /\ UNCHANGED <<serviceVars, blurVars, classVars, layerVars, coordVars, cropVars, args, theme_files, bounds,
                   output_file, stderr, exc, fetchVars, plotted, postVars>>

Next ==
    \/ Main
    \/ ValidateTheme
    \/ LoadTheme
    \/ ParseLayers
    \/ ParseBounds
    \/ GetCoords
    \/ GenerateOutputFilename
    \/ CreatePoster
    \/ FetchRoads
    \/ FetchWater
    \/ FetchParks
    \/ FetchSubway
    \/ SetupPlot
    \/ PlotFeatures
    \/ PlotRoads
    \/ GetEdgeColors
    \/ GetEdgeWidths
    \/ PlotGraph
    \/ CropToPaper
    \/ Gradients
    \/ DrawCoords
    \/ ApplyPostProcessing
    \/ Finish
    \/ HandleException

Spec == MainInit /\ [][Next]_vars

----------------------------------------------------------------------------
\* The classification table of the road classifier, widths in tenths.
TableSlot(tag) ==
    CASE tag \in {"motorway", "motorway_link"} -> "road_motorway"
      [] tag \in {"trunk", "trunk_link", "primary", "primary_link"} -> "road_primary"
      [] tag \in {"secondary", "secondary_link"} -> "road_secondary"
      [] tag \in {"tertiary", "tertiary_link"} -> "road_tertiary"
      [] tag \in {"residential", "living_street", "unclassified"} -> "road_residential"
      [] OTHER -> "road_default"

TableWidth(tag) ==
    CASE tag \in {"motorway", "motorway_link"} -> 12
      [] tag \in {"trunk", "trunk_link", "primary", "primary_link"} -> 10
      [] tag \in {"secondary", "secondary_link"} -> 8
      [] tag \in {"tertiary", "tertiary_link"} -> 6
      [] tag \in {"residential", "living_street", "unclassified"} -> 4
      [] OTHER -> 4

NormalizedTag(data) ==
    IF ~data.has \/ data.tags = <<>> THEN "unclassified" ELSE Head(data.tags)

\* C1: every edge's normalized highway tag (first element of a list,
\* 'unclassified' when absent) is classified by the fixed table: the colour
\* is the theme's colour of the table's slot and the width is the table's.
C1_Classification ==
    /\ pc \in {"edge_widths", "plot_graph"} =>
          /\ Len(edge_colors) = Len(G.edges)
          /\ \A i \in 1..Len(G.edges) :
                edge_colors[i] = THEME[TableSlot(NormalizedTag(G.edges[i]))]
    /\ pc = "plot_graph" =>
          /\ Len(edge_widths) = Len(G.edges)
          /\ \A i \in 1..Len(G.edges) :
                edge_widths[i] = TableWidth(NormalizedTag(G.edges[i]))

C1_Witness ==
    /\ pc = "plot_graph"
    /\ THEME = ThemeFileContents["noir"]
    /\ Len(G.edges) = 2
    /\ G.edges[1] = [has |-> TRUE, isList |-> TRUE, tags |-> <<"tertiary_link", "residential">>]
    /\ G.edges[2] = [has |-> FALSE, isList |-> FALSE, tags |-> <<>>]
    /\ edge_colors = <<"#808084", "#505055">>
    /\ edge_widths = <<6, 4>>

----------------------------------------------------------------------------
\* C2 (as stated): for every layer-selection string, the result is the
\* recognised layer names in order of first occurrence, without duplicates,
\* unrecognised tokens dropped; "roads,water,roads,bogus" gives roads, water.
FirstIndex(s, x) == CHOOSE i \in 1..Len(s) : s[i] = x /\ \A j \in 1..(i - 1) : s[j] # x

Normalised(arg) == [i \in 1..Len(arg.tokens) |-> StripLower(arg.tokens[i])]

FirstOccurrenceOrder(arg, result) ==
    /\ Range(result) = Range(Normalised(arg)) \cap {"roads", "water", "parks", "subway"}
    /\ \A i, j \in 1..Len(result) :
          i < j => /\ result[i] # result[j]
                   /\ FirstIndex(Normalised(arg), result[i])
                        < FirstIndex(Normalised(arg), result[j])

C2_Original ==
    (pc = "parse_bounds" /\ layers_arg.present) =>
        /\ FirstOccurrenceOrder(layers_arg, layers)
        /\ (layers_arg.tokens = <<"roads", "water", "roads", "bogus">>
               => layers = <<"roads", "water">>)

\* C2 (amended): the same for every non-empty string; the empty string, like
\* an absent argument, gives the default selection roads, water, parks.
C2_ParseLayers ==
    (pc = "parse_bounds" /\ layers_arg.present) =>
        IF layers_arg.tokens = <<"">>
        THEN layers = <<"roads", "water", "parks">>
        ELSE /\ FirstOccurrenceOrder(layers_arg, layers)
             /\ (layers_arg.tokens = <<"roads", "water", "roads", "bogus">>
                    => layers = <<"roads", "water">>)

C2_Witness ==
    /\ pc = "parse_bounds"
    /\ layers_arg = [present |-> TRUE, tokens |-> <<"roads", "water", "roads", "bogus">>]
    /\ layers = <<"roads", "water">>

----------------------------------------------------------------------------
\* C3: the coordinate string shows |lat| then N (lat >= 0) or S, then |lon|
\* then E (lon >= 0) or W, and holds no minus sign.
C3_CoordString ==
    pc = "post_process" =>
        /\ coords = Format4f(Abs(point[1]))
                    \o <<"°", " ", IF point[1] >= 0 THEN "N" ELSE "S", " ", "/", " ">>
                    \o Format4f(Abs(point[2]))
                    \o <<"°", " ", IF point[2] >= 0 THEN "E" ELSE "W">>
        /\ \A i \in 1..Len(coords) : coords[i] # "-"

----------------------------------------------------------------------------
Span(l) == RSub(l[2], l[1])
Centre(l) == RDiv(RAdd(l[1], l[2]), RInt(2))
PaperRatio == RDiv(FigSize(paper_size)[1], FigSize(paper_size)[2])
DataRatio == RDiv(Span(xlim), Span(ylim))
ViewRatio == RDiv(Span(ax_xlim), Span(ax_ylim))
RLeq(a, b) == a[1] * b[2] <= b[1] * a[2]

\* C6: in exact-bounds mode, a data ratio within 5% of the paper ratio leaves
\* the view limits as they were; otherwise exactly one axis (x when the data
\* is too wide, y when too tall) is made smaller so that width/height is the
\* paper ratio, the other axis is unchanged and the centre is kept.
C6_ExactBoundsCrop ==
    (pc = "gradients" /\ use_exact_bounds) =>
        IF RLeq(RDiv(RAbs(RSub(DataRatio, PaperRatio)), PaperRatio), Rat(1, 20))
        THEN ax_xlim = xlim /\ ax_ylim = ylim
        ELSE /\ ViewRatio = PaperRatio
             /\ Centre(ax_xlim) = Centre(xlim)
             /\ Centre(ax_ylim) = Centre(ylim)
             /\ IF RLess(PaperRatio, DataRatio)
                THEN ax_ylim = ylim /\ RLess(Span(ax_xlim), Span(xlim))
                ELSE ax_xlim = xlim /\ RLess(Span(ax_ylim), Span(ylim))

\* A 21 x 4 extent on 3:4 paper is cropped to 3 x 4 around x = 21/2.
C6_Witness ==
    /\ pc = "gradients"
    /\ use_exact_bounds
    /\ paper_size = "3:4"
    /\ xlim = <<RInt(0), RInt(21)>>
    /\ ylim = <<RInt(0), RInt(4)>>
    /\ ax_xlim = <<RInt(9), RInt(12)>>
    /\ ax_ylim = ylim

\* C7: in center+radius mode the cropped window has exactly the paper ratio
\* and the centre of the original extent, and neither axis has grown, also
\* at zero deviation.
C7_CenterRadiusCrop ==
    (pc = "gradients" /\ ~use_exact_bounds) =>
        /\ ViewRatio = PaperRatio
        /\ Centre(ax_xlim) = Centre(xlim)
        /\ Centre(ax_ylim) = Centre(ylim)
        /\ RLeq(Span(ax_xlim), Span(xlim))
        /\ RLeq(Span(ax_ylim), Span(ylim))

\* A 20 x 21 extent on 1:1 paper (4.8% off) is cropped to 20 x 20.
C7_Witness ==
    /\ pc = "gradients"
    /\ ~use_exact_bounds
    /\ paper_size = "1:1"
    /\ xlim = <<RInt(-3), RInt(17)>>
    /\ ylim = <<RInt(2), RInt(23)>>
    /\ ax_xlim = xlim
    /\ ax_ylim = <<Rat(5, 2), Rat(45, 2)>>

----------------------------------------------------------------------------
\* C5: for every theme identifier without a theme file, load_theme returns
\* the one fixed fallback theme, which holds every required colour key.
C5_FallbackTheme ==
    (pc = "parse_layers" /\ args.theme \notin theme_files) =>
        /\ THEME = FallbackTheme
        /\ RequiredKeys \subseteq DOMAIN THEME

C5_Witness ==
    /\ pc = "parse_layers"
    /\ args.theme = "nosuch"
    /\ theme_files = {"noir", "legacy"}
    /\ THEME["subway"] = "#FF5722"
    /\ THEME["road_default"] = "#3A3A3A"

----------------------------------------------------------------------------
\* A generation run: a city and a country are given and neither the examples
\* nor the theme list is asked for.
GenerationRun == args.city_country /\ ~args.no_args /\ ~args.list_themes

\* C4 (as stated): a generation run whose theme has no theme file does not
\* fail for it: it ends with status 0 and, unless something else raised, has
\* saved its poster drawn with the fallback theme.
C4_Original ==
    (GenerationRun /\ args.theme \notin theme_files /\ pc = "exit") =>
        /\ exit_code = 0
        /\ stderr = <<>> => (saved = <<output_file>> /\ THEME = FallbackTheme)

\* C4 (amended): a generation run whose theme has no theme file is rejected
\* before the theme is loaded: "Theme not found" is printed, the status is
\* 1, nothing is fetched, drawn or saved, and load_theme is not reached.
C4_MissingThemeRejected ==
    (GenerationRun /\ args.theme \notin theme_files) =>
        /\ pc \in {"main", "validate_theme", "exit"}
        /\ THEME = NoTheme
        /\ fetch_calls = <<>> /\ ~fig /\ plotted = <<>> /\ saved = <<>>
        /\ pc = "exit" =>
              /\ exit_code = 1
              /\ "Error: Theme not found." \in Range(stdout)

C4_Witness ==
    /\ pc = "exit"
    /\ GenerationRun
    /\ args.theme = "nosuch"
    /\ "nosuch" \notin theme_files
    /\ exit_code = 1
    /\ stdout = <<"Error: Theme not found.", "Available themes">>

----------------------------------------------------------------------------
RoadsFetchRaised ==
    \/ exc = "provider: no street network"
    \/ "provider: no street network" \in Range(stderr)

----------------------------------------------------------------------------
Fetched(layer) == \E i \in 1..Len(fetch_calls) : fetch_calls[i].layer = layer
Drawn(layer) == \E i \in 1..Len(plotted) : plotted[i].layer = layer
Selected(layer) == layer \in Range(layers)
Unavailable(features) == ~features.present \/ features.empty

\* The fetch of a selected water, parks or subway layer raised or came back empty.
LayerFetchFailed ==
    \/ Fetched("water") /\ Unavailable(water)
    \/ Fetched("parks") /\ Unavailable(parks)
    \/ Fetched("subway") /\ Unavailable(subway)

FetchesDone == pc \notin {"fetch_water", "fetch_parks", "fetch_subway"}
PlotsDone == pc \in {"crop", "gradients", "format_coords", "post_process", "finish", "exit"}

\* C9: when the fetch of a selected water, parks or subway layer raises or
\* returns nothing, that layer is not drawn, the other selected layers are
\* still fetched and (when they have data) drawn, and the run goes on to its
\* end, where it has written its poster and exits with status 0.
C9_LayerFailureTolerated ==
    LayerFetchFailed =>
        /\ Fetched("water") /\ Unavailable(water) => ~Drawn("water")
        /\ Fetched("parks") /\ Unavailable(parks) => ~Drawn("parks")
        /\ Fetched("subway") /\ Unavailable(subway) => ~Drawn("subway")
        /\ FetchesDone => \A l \in {"water", "parks", "subway"} : Selected(l) => Fetched(l)
        /\ PlotsDone =>
              /\ (Selected("water") /\ ~Unavailable(water)) => Drawn("water")
              /\ (Selected("parks") /\ ~Unavailable(parks)) => Drawn("parks")
              /\ (Selected("subway") /\ ~Unavailable(subway)) => Drawn("subway")
              /\ Selected("roads") => Drawn("roads")
        /\ pc # "except" /\ exc = ""
        /\ pc = "exit" => (exit_code = 0 /\ saved = <<output_file>> /\ stderr = <<>>)

\* All four layers selected; water raised, parks came back empty: the subway
\* and the roads are drawn and the poster is saved.
C9_Witness ==
    /\ pc = "exit"
    /\ Range(layers) = {"roads", "water", "parks", "subway"}
    /\ water = NoFeatures
    /\ parks = [present |-> TRUE, empty |-> TRUE]
    /\ subway = [present |-> TRUE, empty |-> FALSE]
    /\ Len(fetch_calls) = 4
    /\ [i \in 1..Len(plotted) |-> plotted[i].layer]
          = <<"subway", "roads", "gradient_bottom", "gradient_top", "text">>
    /\ saved = <<output_file>>
    /\ exit_code = 0

----------------------------------------------------------------------------
GeocoderFoundNothing ==
    \/ exc = "Could not find coordinates for city, country"
    \/ "Could not find coordinates for city, country" \in Range(stderr)

----------------------------------------------------------------------------
\* --layers "" : the empty selection.
EmptySelection == layers_arg.present /\ layers_arg.tokens = <<"">>

\* --layers given, not empty, and none of its tokens names a layer.
UnknownOnlySelection ==
    /\ layers_arg.present
    /\ layers_arg.tokens # <<"">>
    /\ \A i \in 1..Len(layers_arg.tokens) :
          StripLower(layers_arg.tokens[i]) \notin Range(AVAILABLE_LAYERS)

\* Line 705 has run.
LayersParsed == THEME # NoTheme /\ pc # "parse_layers"

MapLayers == {"roads", "water", "parks", "subway"}
PlottedLayers == [i \in 1..Len(plotted) |-> plotted[i].layer]

\* Nothing is fetched, no map layer is drawn, and a run that reaches its end
\* without an exception has saved a poster of the two gradients and the text.
OnlyGradientsAndText ==
    /\ layers = <<>>
    /\ fetch_calls = <<>>
    /\ \A l \in MapLayers : ~Drawn(l)
    /\ (pc = "exit" /\ stderr = <<>>) =>
          /\ PlottedLayers = <<"gradient_bottom", "gradient_top", "text">>
          /\ saved = <<output_file>>
          /\ exit_code = 0

\* C11 (as stated): a run with an empty layer selection, or with a selection
\* of unknown tokens only, proceeds with the empty layer set, fetches
\* nothing, draws no map layer and completes with gradients and text only.
C11_Original ==
    (GenerationRun /\ LayersParsed /\ (EmptySelection \/ UnknownOnlySelection)) =>
        OnlyGradientsAndText

\* C11 (amended): a run whose selection is not empty and holds unknown
\* tokens only proceeds with the empty layer set, fetches nothing, draws no
\* map layer and completes with gradients and text only; a run with the
\* empty selection proceeds, like one without --layers, with the default
\* layers roads, water, parks and fetches each of them.
C11_EmptyLayerSet ==
    (GenerationRun /\ LayersParsed) =>
        /\ UnknownOnlySelection => OnlyGradientsAndText
        /\ (EmptySelection \/ ~layers_arg.present) =>
              /\ layers = DEFAULT_LAYERS
              /\ (pc = "exit" /\ stderr = <<>>) =>
                    /\ [i \in 1..Len(fetch_calls) |-> fetch_calls[i].layer] = DEFAULT_LAYERS
                    /\ Drawn("roads")
                    /\ saved = <<output_file>>

C11_Witness ==
    /\ pc = "exit"
    /\ layers_arg = [present |-> TRUE, tokens |-> <<"bogus">>]
    /\ layers = <<>>
    /\ fetch_calls = <<>>
    /\ PlottedLayers = <<"gradient_bottom", "gradient_top", "text">>
    /\ saved = <<output_file>>
    /\ exit_code = 0

----------------------------------------------------------------------------
(* The service: generate (api/main.py) and run_script (poster_service.py),  *)
(* and the script runs they start, on the shared posters directory. A file  *)
(* name is the sequence of its words, the pieces between its underscores;   *)
(* every file ends in .png.                                                 *)

pipelineVars == <<pc, classVars, layerVars, coordVars, cropVars, runVars, blurVars>>

Cities == {"Paris", "New York"}

\* city.lower().replace(' ', '_')
CitySlug(city) ==
    CASE city = "Paris" -> <<"paris">>
      [] city = "New York" -> <<"new", "york">>
      [] OTHER -> <<"map">>

\* The clock ticks twice a second.
TicksPerSecond == 2
ClockFaces == <<"120000", "120001", "120002", "120003">>

\* datetime.now().strftime("%Y%m%d_%H%M%S"): the time cut to whole seconds.
strftime(t) == <<"20260101", ClockFaces[(t \div TicksPerSecond) + 1]>>

\* f"{city_slug}_{theme_name}_{timestamp}.png" in POSTERS_DIR
generate_output_filename(city, theme_name, t) ==
    CitySlug(city) \o <<theme_name>> \o strftime(t)

\* The posters directory before the calls: empty, or holding an older poster
\* of Paris.
InitialDirs == {{}, {<<"paris", "ocean", "20251231", "235959">>}}

\* The calls: run_script called with its own parameters, and POST
\* /api/generate requests with and without lat/lng and grain.
ServiceRequests ==
    [via : {"run_script"}, city : Cities, theme : {"noir"},
     layers : {<<>>, <<"roads", "water">>}, lat_lng : {FALSE}, grain : {FALSE}]
    \cup
    [via : {"generate"}, city : {"Paris"}, theme : {"noir"},
     layers : {<<"roads", "water", "parks">>}, lat_lng : BOOLEAN, grain : BOOLEAN]

\* The parameters of run_script, and the keywords generate calls it with.
RunScriptParams == {"city", "country", "theme", "distance", "layers", "paper_size"}
GenerateKeywords ==
    {"city", "country", "theme", "distance", "layers", "paper_size", "lat", "lng", "grain"}

ServiceInit ==
    /\ pc = "service"
    /\ ClassIdle
    /\ LayerIdle
    /\ CoordIdle
    /\ CropIdle
    /\ RunIdle
    /\ BlurIdle
    /\ now = 0
    /\ posters_dir \in InitialDirs
    /\ writes = <<>>
    /\ request \in [Calls -> ServiceRequests]
    /\ call_pc = [c \in Calls |-> request[c].via]
    /\ cmd = [c \in Calls |-> <<>>]
    /\ old_posters = [c \in Calls |-> {}]
    /\ script_file = [c \in Calls |-> <<>>]
    /\ returncode = [c \in Calls |-> Running]
    /\ response = [c \in Calls |-> NoResponse]

\* What a call answers: run_script's dictionary or its exception; through
\* generate the dictionary is the body of a 200 and the exception a 500.
Result(c, filename) ==
    [outcome |-> "result", filename |-> filename, detail |-> "",
     http |-> IF request[c].via = "generate" THEN 200 ELSE 0]
Raised(c, detail) ==
    [outcome |-> "exception", filename |-> <<>>, detail |-> detail,
     http |-> IF request[c].via = "generate" THEN 500 ELSE 0]

\* main.py lines 117-144: the call of run_script binds its keywords to
\* run_script's parameters; a keyword without a parameter is a TypeError,
\* which the handler answers with HTTP 500.
Generate(c) ==
    /\ call_pc[c] = "generate"
    /\ IF GenerateKeywords \subseteq RunScriptParams
       THEN /\ call_pc' = [call_pc EXCEPT ![c] = "run_script"]
            /\ UNCHANGED response
       ELSE /\ response' = [response EXCEPT ![c] =
                   Raised(c, "run_script() got an unexpected keyword argument")]
            /\ call_pc' = [call_pc EXCEPT ![c] = "done"]
    /\ UNCHANGED <<pipelineVars, now, posters_dir, writes, request, cmd, old_posters,
                   script_file, returncode>>

\* Lines 50-67: the command line, with --layers when the list is not empty,
\* and the names in the posters directory.
RunScript(c) ==
    /\ call_pc[c] = "run_script"
    /\ cmd' = [cmd EXCEPT ![c] =
                 <<"--city", "--country", "--theme", "--distance", "--paper-size">>
                 \o (IF request[c].layers # <<>> THEN <<"--layers">> ELSE <<>>)]
    /\ old_posters' = [old_posters EXCEPT ![c] = posters_dir]
    /\ call_pc' = [call_pc EXCEPT ![c] = "script"]
    /\ UNCHANGED <<pipelineVars, now, posters_dir, writes, request, script_file,
                   returncode, response>>

\* The script ends before it has made its file name: with status 1 (lines
\* 692-697, the theme is not found) or, after an exception of the geocoder,
\* with status 0 (lines 740-743).
ScriptExitEarly(c) ==
    /\ call_pc[c] = "script"
    /\ \E rc \in {0, 1} : returncode' = [returncode EXCEPT ![c] = rc]
    /\ call_pc' = [call_pc EXCEPT ![c] = "collect"]
    /\ UNCHANGED <<pipelineVars, now, posters_dir, writes, request, cmd, old_posters,
                   script_file, response>>

\* Line 733: output_file = generate_output_filename(args.city, args.theme)
ScriptOutputFilename(c) ==
    /\ call_pc[c] = "script"
    /\ script_file' = [script_file EXCEPT ![c] =
                         generate_output_filename(request[c].city, request[c].theme, now)]
    /\ call_pc' = [call_pc EXCEPT ![c] = "render"]
    /\ UNCHANGED <<pipelineVars, now, posters_dir, writes, request, cmd, old_posters,
                   returncode, response>>

\* Line 141, image.save(output_file), and the normal end of the script.
ScriptSave(c) ==
    /\ call_pc[c] = "render"
    /\ writes' = Append(writes, [file |-> script_file[c], call |-> c])
    /\ posters_dir' = posters_dir \cup {script_file[c]}
    /\ returncode' = [returncode EXCEPT ![c] = 0]
    /\ call_pc' = [call_pc EXCEPT ![c] = "collect"]
    /\ UNCHANGED <<pipelineVars, now, request, cmd, old_posters, script_file, response>>

\* create_poster raises (the road fetch): the handler of lines 740-743 ends
\* the script with status 0 and no file.
ScriptRaise(c) ==
    /\ call_pc[c] = "render"
    /\ returncode' = [returncode EXCEPT ![c] = 0]
    /\ call_pc' = [call_pc EXCEPT ![c] = "collect"]
    /\ UNCHANGED <<pipelineVars, now, posters_dir, writes, request, cmd, old_posters,
                   script_file, response>>

\* slug in f: the words of slug stand next to each other in f.
Contains(f, slug) ==
    \E i \in 0..(Len(f) - Len(slug)) : SubSeq(f, i + 1, i + Len(slug)) = slug

\* os.path.getmtime: the place of the last write in the order of the writes;
\* 0 for a file no call has written.
Mtime(f) ==
    LET W == {i \in 1..Len(writes) : writes[i].file = f}
    IN  IF W = {} THEN 0 ELSE CHOOSE i \in W : \A j \in W : j <= i

\* Lines 71-93: the status, the new names in the directory, and the file
\* name answered; list(diff)[0] is any element of the set.
Collect(c) ==
    /\ call_pc[c] = "collect"
    /\ LET diff == posters_dir \ old_posters[c]
           files == {f \in posters_dir : Contains(f, CitySlug(request[c].city))}
       IN  IF returncode[c] # 0
           THEN response' = [response EXCEPT ![c] = Raised(c, "Script error")]
           ELSE IF diff = {}
           THEN IF files = {}
                THEN response' = [response EXCEPT ![c] = Raised(c, "No poster was generated")]
                ELSE \E f \in {g \in files : \A h \in files : Mtime(h) <= Mtime(g)} :
                        response' = [response EXCEPT ![c] = Result(c, f)]
           ELSE \E f \in diff : response' = [response EXCEPT ![c] = Result(c, f)]
    /\ call_pc' = [call_pc EXCEPT ![c] = "done"]
    /\ UNCHANGED <<pipelineVars, now, posters_dir, writes, request, cmd, old_posters,
                   script_file, returncode>>

\* Time passes.
Tick ==
    /\ now < MaxClock
    /\ now' = now + 1
    /\ UNCHANGED <<pipelineVars, posters_dir, writes, call_pc, request, cmd, old_posters,
                   script_file, returncode, response>>

ServiceNext ==
    \/ \E c \in Calls : Generate(c)
    \/ \E c \in Calls : RunScript(c)
    \/ \E c \in Calls : ScriptExitEarly(c)
    \/ \E c \in Calls : ScriptOutputFilename(c)
    \/ \E c \in Calls : ScriptSave(c)
    \/ \E c \in Calls : ScriptRaise(c)
    \/ \E c \in Calls : Collect(c)
    \/ Tick

SpecService == ServiceInit /\ [][ServiceNext]_vars

----------------------------------------------------------------------------
\* The script run of call c has made its output path.
HasOutputFile(c) == script_file[c] # <<>>

\* C12: two distinct runs never get the same output path from
\* generate_output_filename, also when they are for the same city and theme
\* and start within the same second; each run writes its poster file once,
\* and no file is written a second time.
C12_UniqueOutputPath ==
    /\ \A c, d \in Calls :
          (c # d /\ HasOutputFile(c) /\ HasOutputFile(d)) =>
              script_file[c] # script_file[d]
    /\ \A i, j \in 1..Len(writes) : i # j => writes[i].file # writes[j].file
    /\ \A i \in 1..Len(writes) : writes[i].file = script_file[writes[i].call]

----------------------------------------------------------------------------
\* The files the script run of call c has written.
WrittenBy(c) == {writes[i].file : i \in {j \in 1..Len(writes) : writes[j].call = c}}

----------------------------------------------------------------------------
\* --bounds is given and is not four numbers.
InvalidBounds ==
    /\ args.bounds.present
    /\ \/ Len(args.bounds.parts) # 4
       \/ \E i \in 1..Len(args.bounds.parts) : ~Numeric(args.bounds.parts[i])

\* Lines 707-723 have run.
BoundsParsed == THEME # NoTheme /\ pc \notin {"parse_layers", "parse_bounds"}

BoundsWarnings ==
    {"Invalid bounds format. Expected: north,south,east,west",
     "Invalid bounds values. Expected numeric values."}

Cropped == pc \in {"gradients", "format_coords", "post_process", "finish", "exit"} /\ fig

\* C14: bounds that are not exactly four numbers are discarded with a
\* warning and raise nothing; the run goes on in centre and radius mode:
\* every fetch is by centre point and distance, the crop cuts to the paper
\* ratio without tolerance, and a run in which nothing else raises saves its
\* poster and ends with status 0 (a run rejected for its theme never reads
\* its bounds).
C14_InvalidBoundsDiscarded ==
    (GenerationRun /\ InvalidBounds) =>
        /\ ~bounds.present
        /\ ~use_exact_bounds
        /\ BoundsParsed => \E i \in 1..Len(stdout) : stdout[i] \in BoundsWarnings
        /\ pc = "get_coords" => exc = ""
        /\ \A i \in 1..Len(fetch_calls) : fetch_calls[i].by = "point"
        /\ Cropped =>
              <<ax_xlim, ax_ylim>> =
                  (IF RLess(TargetRatio(paper_size), CurrentRatio(xlim, ylim))
                   THEN CropWidth(xlim, ylim, paper_size)
                   ELSE CropHeight(xlim, ylim, paper_size))
        /\ (BoundsParsed /\ pc = "exit" /\ stderr = <<>>) =>
              (exit_code = 0 /\ saved = <<output_file>>)

\* Three numbers for --bounds: warned about, all four fetches by point, the
\* poster saved.
C14_Witness ==
    /\ pc = "exit"
    /\ args.bounds = [present |-> TRUE, parts |-> <<"num", "num", "num">>]
    /\ "Invalid bounds format. Expected: north,south,east,west" \in Range(stdout)
    /\ [i \in 1..Len(fetch_calls) |-> fetch_calls[i].by] = <<"point", "point", "point", "point">>
    /\ ax_xlim # xlim
    /\ saved = <<output_file>>
    /\ exit_code = 0

----------------------------------------------------------------------------
Count(s, x) == Cardinality({i \in 1..Len(s) : s[i] = x})
Before(s, x, y) == \A i, j \in 1..Len(s) : (s[i] = x /\ s[j] = y) => i < j

\* C15: in every run of apply_post_processing the blur fade is applied
\* exactly when the paper size is 9:19.5, the grain exactly when the grain
\* flag is set, each at most once and the blur fade before the grain, and
\* the image is saved to the requested path exactly once, after both; before
\* apply_post_processing has run nothing is applied or saved.
C15_PostProcessingOrder ==
    IF pc \in {"finish", "exit"} /\ THEME # NoTheme /\ stderr = <<>>
    THEN /\ Count(effects, "blur_fade") = (IF paper_size = "9:19.5" THEN 1 ELSE 0)
         /\ Count(effects, "grain") = (IF args.grain THEN 1 ELSE 0)
         /\ Before(effects, "blur_fade", "grain")
         /\ Count(effects, "save") = 1
         /\ Before(effects, "blur_fade", "save")
         /\ Before(effects, "grain", "save")
         /\ saved = <<output_file>>
         /\ output_file # ""
    ELSE effects = <<>> /\ saved = <<>>

C15_Witness ==
    /\ pc = "exit"
    /\ paper_size = "9:19.5"
    /\ args.grain
    /\ effects = <<"blur_fade", "grain", "save">>
    /\ saved = <<output_file>>

----------------------------------------------------------------------------
\* The places in plotted of the artists of the map layers.
MapArtists == {i \in 1..Len(plotted) : plotted[i].layer \in MapLayers}

\* The canvas draws its artists by ascending zorder and, among equal
\* zorders, in the order they were added: artist j ends above artist i.
Above(j, i) ==
    \/ plotted[j].zorder > plotted[i].zorder
    \/ plotted[j].zorder = plotted[i].zorder /\ j > i

LayerRank(layer) ==
    CASE layer = "water" -> 1
      [] layer = "parks" -> 2
      [] layer = "subway" -> 3
      [] layer = "roads" -> 4
      [] OTHER -> 0

\* C16: the layers are drawn in the order water, parks, transit lines, road
\* edges, and among the layers drawn each later one lies above every earlier
\* one, the roads on top.
C16_LayerOrder ==
    \A i, j \in MapArtists :
        LayerRank(plotted[i].layer) < LayerRank(plotted[j].layer) =>
            (i < j /\ Above(j, i))

----------------------------------------------------------------------------
\* Lines 458-464: ox.plot_graph draws the edges in the iteration order of
\* G.edges and gives the edge at position i the colour and the line width at
\* position i of the two sequences; a position without an entry is drawn
\* with none.
DrawnEdges(g, colors, widths) ==
    [i \in 1..Len(g.edges) |->
        [edge |-> g.edges[i],
         color |-> IF i <= Len(colors) THEN colors[i] ELSE "none",
         linewidth |-> IF i <= Len(widths) THEN widths[i] ELSE 0]]

\* C17: the colour sequence and the width sequence have one entry per edge,
\* in the iteration order of the edges, so that the renderer draws edge i
\* with the colour and the width that the classifier gave for edge i.
C17_ParallelSequences ==
    pc = "plot_graph" =>
        /\ Len(edge_colors) = Len(G.edges)
        /\ Len(edge_widths) = Len(G.edges)
        /\ LET drawn == DrawnEdges(G, edge_colors, edge_widths)
           IN  \A i \in 1..Len(G.edges) :
                  /\ drawn[i].edge = G.edges[i]
                  /\ drawn[i].color = EdgeColor(THEME, HighwayOf(drawn[i].edge))
                  /\ drawn[i].linewidth = EdgeWidth(HighwayOf(drawn[i].edge))

\* An edge without highway attribute before a motorway: the thin residential
\* entry comes first in both sequences, the motorway's second.
C17_Witness ==
    /\ pc = "plot_graph"
    /\ THEME = ThemeFileContents["noir"]
    /\ Len(G.edges) = 2
    /\ G.edges[1] = [has |-> FALSE, isList |-> FALSE, tags |-> <<>>]
    /\ G.edges[2] = [has |-> TRUE, isList |-> FALSE, tags |-> <<"motorway">>]
    /\ edge_colors = <<THEME["road_residential"], THEME["road_motorway"]>>
    /\ edge_widths = <<4, 12>>
    /\ THEME["road_residential"] # THEME["road_motorway"]

----------------------------------------------------------------------------
(* add_blur_fade_top. Heights are rows of pixels; the ratio is in           *)
(* hundredths; a blend factor is an exact rational.                         *)

\* The ratios add_blur_fade_top is called with: none, the 0.35 of
\* apply_post_processing, a half and the whole image.
FadeRatios == {0, 35, 50, 100}

\* Limit steps for performance (line 87).
MaxSteps == 50

Min(a, b) == IF a <= b THEN a ELSE b

BlurInit ==
    /\ pc = "blur_fade"
    /\ height \in 0..MaxHeight
    /\ fade_height_ratio \in FadeRatios
    /\ fade_height = 0
    /\ num_steps = 0
    /\ step_height = 0
    /\ band_i = 0
    /\ bands = <<>>
    /\ blur_exc = ""
    /\ ClassIdle
    /\ LayerIdle
    /\ CoordIdle
    /\ CropIdle
    /\ RunIdle
    /\ ServiceIdle

outsideBlurVars == <<classVars, layerVars, coordVars, cropVars, runVars, serviceVars>>

\* Lines 76-88: fade_height = int(height * fade_height_ratio), num_steps =
\* min(fade_height, 50), step_height = fade_height // num_steps; the floor
\* division by 0 raises ZeroDivisionError.
BlurFadeSetup ==
    /\ pc = "blur_fade"
    /\ LET fh == (height * fade_height_ratio) \div 100
           ns == Min(fh, MaxSteps)
       IN  /\ fade_height' = fh
           /\ num_steps' = ns
           /\ IF ns = 0
              THEN /\ blur_exc' = "ZeroDivisionError"
                   /\ pc' = "blur_raised"
                   /\ UNCHANGED step_height
              ELSE /\ step_height' = fh \div ns
                   /\ pc' = "blur_loop"
                   /\ UNCHANGED blur_exc
    /\ UNCHANGED <<outsideBlurVars, height, fade_height_ratio, band_i, bands>>

\* Lines 90-105: one pass of the loop blends the strip y_start .. y_end - 1
\* with blend = 1.0 - i / num_steps and pastes it.
BlurFadeBand ==
    /\ pc = "blur_loop"
    /\ band_i < num_steps
    /\ bands' = Append(bands,
          [y_start |-> band_i * step_height,
           y_end |-> IF band_i < num_steps - 1
                     THEN (band_i + 1) * step_height ELSE fade_height,
           blend |-> RSub(RInt(1), Rat(band_i, num_steps))])
    /\ band_i' = band_i + 1
    /\ UNCHANGED <<outsideBlurVars, pc, height, fade_height_ratio, fade_height, num_steps,
                   step_height, blur_exc>>

\* Line 107: the loop is over, the result is returned.
BlurFadeReturn ==
    /\ pc = "blur_loop"
    /\ band_i >= num_steps
    /\ pc' = "blur_done"
    /\ UNCHANGED <<outsideBlurVars, blurVars>>

BlurNext == BlurFadeSetup \/ BlurFadeBand \/ BlurFadeReturn

SpecBlur == BlurInit /\ [][BlurNext]_vars

----------------------------------------------------------------------------
\* The bands are at most 50, lie one below the other without gap or overlap
\* from row 0 to the last row of the fade zone, and their blend factors fall
\* from 1 in equal steps, on a line that reaches 0 at the bottom of the zone.
FadeBandsRight ==
    LET n == Len(bands)
        zone == (height * fade_height_ratio) \div 100
    IN  /\ n <= 50
        /\ zone > 0 =>
              /\ n >= 1
              /\ bands[1].y_start = 0
              /\ bands[n].y_end = zone
        /\ \A k \in 1..n :
              /\ bands[k].y_start < bands[k].y_end
              /\ bands[k].y_end <= zone
              /\ k < n => bands[k + 1].y_start = bands[k].y_end
              /\ bands[k].blend = Rat(n - (k - 1), n)

\* C18: for every image height and fade ratio add_blur_fade_top ends without
\* an error, and what it has blended is at most 50 bands that cover exactly
\* the rows of the fade zone, one below the other, with the blend factor 1
\* in the top band falling linearly to the bottom of the zone; no row below
\* the zone is touched.
C18_BlurFadeBands ==
    /\ blur_exc = ""
    /\ pc # "blur_raised"
    /\ pc = "blur_done" => FadeBandsRight

----------------------------------------------------------------------------
\* C19: a POST /api/generate request is answered with HTTP 500 only when its
\* script run has failed: run_script accepts every argument generate passes,
\* so the script is started, with the request's lat, lng and grain on its
\* command line, and a run that succeeds is answered with the run_script
\* result.
C19_GenerateReachesScript ==
    \A c \in Calls :
        (request[c].via = "generate" /\ call_pc[c] = "done") =>
            /\ cmd[c] # <<>>
            /\ returncode[c] # Running
            /\ response[c].http = 500 => (returncode[c] # 0 \/ WrittenBy(c) = {})
            /\ WrittenBy(c) # {} => response[c].http = 200
            /\ request[c].lat_lng => {"--lat", "--lng"} \subseteq Range(cmd[c])
            /\ request[c].grain => "--grain" \in Range(cmd[c])

====
